---- MODULE Spec2Model ----
(***************************************************************************)
(* A model of the SFZ instrument parser of scripts/sfz_to_json.py:         *)
(* the tokenizer, the macro table, the #include recursion with its         *)
(* processed-file guard, the section state machine and the normalizer.     *)
(*                                                                         *)
(* Text is a sequence of one-character strings and positions are 0-based   *)
(* as in Python, so that every slice of the source can be read off the     *)
(* model: line[a:b] is Slice(line, a, b).                                  *)
(***************************************************************************)
EXTENDS Integers, Sequences, FiniteSets, TLC

\* ------------------------------------------------------------------------
\* Characters and the string methods the parser uses
\* ------------------------------------------------------------------------

Digits == {"0", "1", "2", "3", "4", "5", "6", "7", "8", "9"}

Letters ==
    {"a", "b", "c", "d", "e", "f", "g", "h", "i", "j", "k", "l", "m",
     "n", "o", "p", "q", "r", "s", "t", "u", "v", "w", "x", "y", "z",
     "A", "B", "C", "D", "E", "F", "G", "H", "I", "J", "K", "L", "M",
     "N", "O", "P", "Q", "R", "S", "T", "U", "V", "W", "X", "Y", "Z"}

\* \w of the re module
WordChars == Digits \cup Letters \cup {"_"}

\* \s of the re module, and what str.strip() removes
WhiteSpace == {" ", "\t"}

SetMin(S) == CHOOSE x \in S : \A y \in S : x <= y

SetMax(S) == CHOOSE x \in S : \A y \in S : x >= y

\* s[a:b]
Slice(s, a, b) == SubSeq(s, a + 1, b)

\* s[a:]
SliceFrom(s, a) == SubSeq(s, a + 1, Len(s))

\* the positions at which sub occurs in s
Occurrences(s, sub) ==
    {i \in 0..(Len(s) - Len(sub)) : Slice(s, i, i + Len(sub)) = sub}

\* s.find(sub, start)
Find(s, sub, start) ==
    LET hits == {i \in Occurrences(s, sub) : i >= start}
    IN  IF hits = {} THEN -1 ELSE SetMin(hits)

\* s.rfind(sub, start, end)
RFind(s, sub, start, end) ==
    LET hits == {i \in Occurrences(s, sub) : i >= start /\ i + Len(sub) <= end}
    IN  IF hits = {} THEN -1 ELSE SetMax(hits)

\* sub in s
Contains(s, sub) == Occurrences(s, sub) # {}

\* s.startswith(p)
StartsWith(s, p) == Len(s) >= Len(p) /\ Slice(s, 0, Len(p)) = p

\* s.endswith(p)
EndsWith(s, p) == Len(s) >= Len(p) /\ SliceFrom(s, Len(s) - Len(p)) = p

\* s.strip()
Strip(s) ==
    LET keep == {i \in 1..Len(s) : s[i] \notin WhiteSpace}
    IN  IF keep = {} THEN << >> ELSE SubSeq(s, SetMin(keep), SetMax(keep))

\* s.replace(old, new), old not empty: the occurrences are replaced from
\* left to right, without overlap, and the inserted text is not rescanned
RECURSIVE Replace(_, _, _)
Replace(s, old, new) ==
    LET i == Find(s, old, 0)
    IN  IF i = -1
        THEN s
        ELSE Slice(s, 0, i) \o new \o Replace(SliceFrom(s, i + Len(old)), old, new)

\* s.split(sep)[0]
SplitFirst(s, sep) ==
    LET i == Find(s, sep, 0)
    IN  IF i = -1 THEN s ELSE Slice(s, 0, i)

\* every character of s[a:b] is in the class C
AllIn(s, a, b, C) == \A i \in (a + 1)..b : s[i] \in C

\* ------------------------------------------------------------------------
\* Attribute values: the int, float or str that parse_value returns
\* ------------------------------------------------------------------------

\* An int is n. A float is n * 10^k with n not a multiple of 10 (0.0 is
\* n = 0, k = 0), which is exact for the short decimal texts of the model.
\* A str is its text s.
IntValue(n) == [t |-> "int", n |-> n, k |-> 0, s |-> << >>]

RECURSIVE FloatValue(_, _)
FloatValue(n, k) ==
    IF n = 0 THEN [t |-> "float", n |-> 0, k |-> 0, s |-> << >>]
    ELSE IF n % 10 = 0 THEN FloatValue(n \div 10, k + 1)
    ELSE [t |-> "float", n |-> n, k |-> k, s |-> << >>]

StrValue(s) == [t |-> "str", n |-> 0, k |-> 0, s |-> s]

\* bool(value): 0, 0.0 and "" are false
Truthy(v) == IF v.t = "str" THEN v.s # << >> ELSE v.n # 0

DigitValue ==
    ("0" :> 0) @@ ("1" :> 1) @@ ("2" :> 2) @@ ("3" :> 3) @@ ("4" :> 4) @@
    ("5" :> 5) @@ ("6" :> 6) @@ ("7" :> 7) @@ ("8" :> 8) @@ ("9" :> 9)

\* the digit part of a Python numeric literal: digits, with single
\* underscores allowed between digits
IsDigitPart(s) ==
    /\ Len(s) >= 1
    /\ s[1] \in Digits
    /\ s[Len(s)] \in Digits
    /\ \A i \in 1..Len(s) : s[i] \in Digits \cup {"_"}
    /\ \A i \in 1..(Len(s) - 1) : ~(s[i] = "_" /\ s[i + 1] = "_")

RECURSIVE NatOf(_)
NatOf(s) ==
    IF s = << >> THEN 0
    ELSE IF s[Len(s)] = "_" THEN NatOf(Slice(s, 0, Len(s) - 1))
    ELSE 10 * NatOf(Slice(s, 0, Len(s) - 1)) + DigitValue[s[Len(s)]]

NumDigits(s) == Cardinality({i \in 1..Len(s) : s[i] \in Digits})

HasSign(s) == Len(s) >= 1 /\ s[1] \in {"+", "-"}

Unsigned(s) == IF HasSign(s) THEN SliceFrom(s, 1) ELSE s

Signed(s, n) == IF HasSign(s) /\ s[1] = "-" THEN 0 - n ELSE n

\* int(value) does not raise
IsIntText(value) == IsDigitPart(Unsigned(Strip(value)))

\* int(value)
IntOf(value) == Signed(Strip(value), NatOf(Unsigned(Strip(value))))

\* the mantissa and the exponent text of a float literal without its sign
Mantissa(body) ==
    LET e == {i \in 0..(Len(body) - 1) : body[i + 1] \in {"e", "E"}}
    IN  IF e = {} THEN body ELSE Slice(body, 0, SetMin(e))

Exponent(body) ==
    LET e == {i \in 0..(Len(body) - 1) : body[i + 1] \in {"e", "E"}}
    IN  IF e = {} THEN << >> ELSE SliceFrom(body, SetMin(e) + 1)

HasExponent(body) == \E i \in 1..Len(body) : body[i] \in {"e", "E"}

\* float(value) does not raise, for a value that contains "." (the only
\* values parse_value hands to float(), so inf and nan never parse)
IsFloatText(value) ==
    LET body == Unsigned(Strip(value))
        m    == Mantissa(body)
        dot  == Find(m, <<".">>, 0)
        ip   == Slice(m, 0, dot)
        fp   == SliceFrom(m, dot + 1)
    IN  /\ dot # -1
        /\ ip = << >> \/ IsDigitPart(ip)
        /\ fp = << >> \/ IsDigitPart(fp)
        /\ ip # << >> \/ fp # << >>
        /\ HasExponent(body) => IsDigitPart(Unsigned(Exponent(body)))

\* float(value)
FloatOf(value) ==
    LET body == Unsigned(Strip(value))
        m    == Mantissa(body)
        dot  == Find(m, <<".">>, 0)
        ip   == Slice(m, 0, dot)
        fp   == SliceFrom(m, dot + 1)
        ex   == Exponent(body)
        e    == IF HasExponent(body) THEN Signed(ex, NatOf(Unsigned(ex))) ELSE 0
    IN  FloatValue(Signed(Strip(value), NatOf(ip \o fp)), e - NumDigits(fp))

Unquote(value) ==
    IF StartsWith(value, <<"\"">>) /\ EndsWith(value, <<"\"">>)
    THEN Slice(value, 1, Len(value) - 1)
    ELSE value

parse_value(raw) ==
    LET value == Unquote(Strip(raw))
    IN  IF Contains(value, <<".">>)
        THEN IF IsFloatText(value) THEN FloatOf(value) ELSE StrValue(value)
        ELSE IF IsIntText(value) THEN IntValue(IntOf(value)) ELSE StrValue(value)

\* ------------------------------------------------------------------------
\* Opcode tokenizer
\* ------------------------------------------------------------------------

\* NextKeyMatch were a value to end at its first white space
NextKeyMatch_FirstSpace(rest) ==
    LET blanks == {i \in 0..(Len(rest) - 1) : rest[i + 1] \in WhiteSpace}
    IN  IF blanks = {} THEN -1 ELSE SetMin(blanks)

\* re.search(r"\s+\w+=", rest): where the leftmost match starts, or -1
NextKeyMatch(rest) ==
    LET n == Len(rest)
        starts ==
            {i \in 0..(n - 1) :
                \E j \in (i + 1)..(n - 1) :
                    /\ AllIn(rest, i, j, WhiteSpace)
                    /\ \E k \in (j + 1)..(n - 1) :
                          AllIn(rest, j, k, WordChars) /\ rest[k + 1] = "="}
    IN  IF starts = {} THEN -1 ELSE SetMin(starts)

\* the while loop of extract_opcodes, entered with its index at i
RECURSIVE ExtractFrom(_, _)
ExtractFrom(line, i) ==
    IF i >= Len(line) THEN << >>
    ELSE
      LET eq == Find(line, <<"=">>, i)
      IN  IF eq = -1 THEN << >>
          ELSE
            LET key_start  == RFind(line, <<" ">>, 0, eq)
                key        == Strip(Slice(line, key_start + 1, eq))
                next_match == NextKeyMatch(SliceFrom(line, eq + 1))
                value_end  == IF next_match # -1
                              THEN eq + 1 + next_match
                              ELSE Len(line)
                value      == Slice(line, eq + 1, value_end)
            IN  << <<key, Strip(value)>> >> \o ExtractFrom(line, value_end)

extract_opcodes(line) == ExtractFrom(line, 0)

\* ------------------------------------------------------------------------
\* Macro table: self.defines, a dict in insertion order
\* ------------------------------------------------------------------------

MacroNames(defs) == {defs[i][1] : i \in 1..Len(defs)}

\* self.defines[key] = value: a known key keeps its place in the order
Define(defs, key, value) ==
    IF key \in MacroNames(defs)
    THEN [i \in 1..Len(defs) |->
             IF defs[i][1] = key THEN <<key, value>> ELSE defs[i]]
    ELSE Append(defs, <<key, value>>)

\* ReplaceMacros were one pass over the text in which the text put in for
\* a reference is not looked at again
ReplaceMacros_SinglePass(text, defs) ==
    LET RECURSIVE Pass(_)
        Pass(t) ==
            IF t = << >> THEN << >>
            ELSE LET hits == {i \in 1..Len(defs) :
                                 StartsWith(t, <<"$">> \o defs[i][1])}
                     i    == SetMin(hits)
                 IN  IF hits = {} THEN << Head(t) >> \o Pass(Tail(t))
                     ELSE defs[i][2] \o Pass(SliceFrom(t, 1 + Len(defs[i][1])))
    IN  Pass(text)

\* ReplaceMacros were the loop to go through the macro table backwards
ReplaceMacros_Reversed(text, defs) ==
    LET RECURSIVE Backwards(_, _)
        Backwards(t, i) ==
            IF i = 0 THEN t
            ELSE Backwards(Replace(t, <<"$">> \o defs[i][1], defs[i][2]), i - 1)
    IN  Backwards(text, Len(defs))

\* for macro, val in self.defines.items(): text = text.replace(f"${macro}", val)
RECURSIVE ReplaceMacros(_, _)
ReplaceMacros(text, defs) ==
    IF defs = << >> THEN text
    ELSE ReplaceMacros(Replace(text, <<"$">> \o defs[1][1], defs[1][2]), Tail(defs))

\* re.match(r'#define\s+\$(\w+)\s+(.+)', line): << >> when there is no
\* match, else <<key, value>>. \w+ takes the whole run of word characters
\* (white space must follow it); \s+ takes all the white space unless
\* nothing would be left for (.+), which then gets the last blank.
DefineMatch(line) ==
    LET n  == Len(line)
        ws == {j \in 8..n : AllIn(line, 7, j, WhiteSpace)}
        a  == IF ws = {} THEN 0 ELSE SetMax(ws)
        wd == {j \in (a + 2)..n : AllIn(line, a + 1, j, WordChars)}
        b  == IF wd = {} THEN 0 ELSE SetMax(wd)
        w2 == {j \in (b + 1)..n : AllIn(line, b, j, WhiteSpace)}
        c  == IF w2 = {} THEN 0 ELSE SetMax(w2)
    IN  IF /\ StartsWith(line, <<"#", "d", "e", "f", "i", "n", "e">>)
           /\ ws # {}
           /\ a < n /\ line[a + 1] = "$"
           /\ wd # {}
           /\ w2 # {}
           /\ c < n \/ c - b >= 2
        THEN <<Slice(line, a + 1, b),
               IF c < n THEN SliceFrom(line, c) ELSE SliceFrom(line, c - 1)>>
        ELSE << >>

\* re.search(r'"([^"]+)"', line): << >> when there is no match, else the
\* one-element sequence holding group(1)
IncludeMatch(line) ==
    LET n  == Len(line)
        op == {i \in 0..(n - 3) :
                  /\ line[i + 1] = "\""
                  /\ line[i + 2] # "\""
                  /\ \E j \in (i + 2)..(n - 1) : line[j + 1] = "\""}
        i0 == SetMin(op)
        j0 == Find(line, <<"\"">>, i0 + 1)
    IN  IF op = {} THEN << >> ELSE << Slice(line, i0 + 1, j0) >>

\* ------------------------------------------------------------------------
\* Mappings (dict) and paths (pathlib)
\* ------------------------------------------------------------------------

EmptyMap == [x \in {} |-> x]

\* m[key] = value
Put(m, key, value) ==
    [x \in DOMAIN m \cup {key} |-> IF x = key THEN value ELSE m[x]]

\* m.update(other)
Update(m, other) ==
    [x \in DOMAIN m \cup DOMAIN other |-> IF x \in DOMAIN other THEN other[x] ELSE m[x]]

\* m.get(key, default)
Get(m, key, default) == IF key \in DOMAIN m THEN m[key] ELSE default

\* text.split("/")
RECURSIVE Components(_)
Components(text) ==
    LET i == Find(text, <<"/">>, 0)
    IN  IF i = -1 THEN << text >>
        ELSE << Slice(text, 0, i) >> \o Components(SliceFrom(text, i + 1))

\* The components of a path after "." and empty components are dropped and
\* ".." steps back, starting from the directory `at` (no symbolic links).
RECURSIVE Walk(_, _)
Walk(at, comps) ==
    IF comps = << >> THEN at
    ELSE IF Head(comps) \in {<< >>, <<".">>} THEN Walk(at, Tail(comps))
    ELSE IF Head(comps) = <<".", ".">>
         THEN Walk(IF at = << >> THEN at ELSE SubSeq(at, 1, Len(at) - 1), Tail(comps))
    ELSE Walk(Append(at, Head(comps)), Tail(comps))

\* (base / path).resolve(): a canonical absolute path is the sequence of
\* its components; an absolute `path` discards `base`
ResolvePath(base, path) ==
    Walk(IF StartsWith(path, <<"/">>) THEN << >> ELSE base, Components(path))

\* filepath.parent
Parent(filepath) == SubSeq(filepath, 1, Len(filepath) - 1)

\* ------------------------------------------------------------------------
\* SFZParser.process_line
\* ------------------------------------------------------------------------

DefineDirective  == <<"#", "d", "e", "f", "i", "n", "e">>
IncludeDirective == <<"#", "i", "n", "c", "l", "u", "d", "e">>
ControlMarker    == <<"<", "c", "o", "n", "t", "r", "o", "l", ">">>
GlobalMarker     == <<"<", "g", "l", "o", "b", "a", "l", ">">>
MasterMarker     == <<"<", "m", "a", "s", "t", "e", "r", ">">>
GroupMarker      == <<"<", "g", "r", "o", "u", "p", ">">>
RegionMarker     == <<"<", "r", "e", "g", "i", "o", "n", ">">>
CommentMark      == <<"/", "/">>

\* None, for current_group (else <<index in data.groups>>) and for
\* current_region (else <<index of its group, index in that group's regions>>)
None == << >>

\* None, for current_section
NoSection == "none"

\* {"opcodes": {}, "regions": []}
NewGroup == [opcodes |-> EmptyMap, regions |-> << >>]

\* the region mapping that the reference ref = <<group, region>> denotes
RegionAt(groups, ref) == groups[ref[1]].regions[ref[2]]

\* the index in data.groups of the group that current_group denotes
GroupIndex(P) == P.current_group[1]

\* bool(self.current_group): a group dict always holds its two keys
GroupTruthy(P) == P.current_group # None

\* bool(self.current_region): None and the empty dict are false
RegionTruthy(P) ==
    /\ P.current_region # None
    /\ DOMAIN RegionAt(P.data.groups, P.current_region) # {}

\* self.current_region[key] = value
SetRegionKey(groups, ref, key, value) ==
    [groups EXCEPT ![ref[1]].regions[ref[2]] = Put(@, key, value)]

\* StoreOpcode were regions to hold a live reference to the global scope:
\* a global attribute shows in every region
StoreOpcode_Live(P, key, value) ==
    IF P.current_section = "control"
    THEN [P EXCEPT !.data.control = Put(@, key, value)]
    ELSE IF P.current_section = "global"
    THEN [P EXCEPT !.data.global = Put(@, key, value),
                   !.data.groups =
                       [g \in 1..Len(@) |->
                           [@[g] EXCEPT !.regions =
                               [r \in 1..Len(@) |-> Put(@[r], key, value)]]]]
    ELSE IF P.current_section = "group" /\ GroupTruthy(P)
    THEN [P EXCEPT !.data.groups[GroupIndex(P)].opcodes = Put(@, key, value)]
    ELSE IF P.current_section = "region" /\ RegionTruthy(P)
    THEN [P EXCEPT !.data.groups =
             SetRegionKey(@, P.current_region, key, value)]
    ELSE P

\* the body of the loop over the opcodes of a plain attribute line: the
\* if / elif chain on the active section
StoreOpcode(P, key, value) ==
    IF P.current_section = "control"
    THEN [P EXCEPT !.data.control = Put(@, key, value)]
    ELSE IF P.current_section = "global"
    THEN [P EXCEPT !.data.global = Put(@, key, value)]
    ELSE IF P.current_section = "group" /\ GroupTruthy(P)
    THEN [P EXCEPT !.data.groups[GroupIndex(P)].opcodes = Put(@, key, value)]
    ELSE IF P.current_section = "region" /\ RegionTruthy(P)
    THEN [P EXCEPT !.data.groups =
             SetRegionKey(@, P.current_region, key, value)]
    ELSE P

\* macro replacement, then parse_value
Resolve(P, raw) == parse_value(ReplaceMacros(raw, P.defines))

\* for key, value in opcodes: ... of a plain attribute line
RECURSIVE StoreOpcodes(_, _)
StoreOpcodes(P, opcodes) ==
    IF opcodes = << >> THEN P
    ELSE StoreOpcodes(StoreOpcode(P, opcodes[1][1], Resolve(P, opcodes[1][2])),
                      Tail(opcodes))

\* for key, value in opcodes: self.current_region[key] = value, of the
\* line of a region marker
RECURSIVE StoreRegionOpcodes(_, _)
StoreRegionOpcodes(P, opcodes) ==
    IF opcodes = << >> THEN P
    ELSE StoreRegionOpcodes(
             [P EXCEPT !.data.groups =
                 SetRegionKey(@, P.current_region, opcodes[1][1],
                              Resolve(P, opcodes[1][2]))],
             Tail(opcodes))

\* OpenGroup were the new group put at the front of the list of groups
OpenGroup_AtFront(P) ==
    [P EXCEPT !.current_section = "group",
              !.data.groups = << NewGroup >> \o @,
              !.current_group = << 1 >>,
              !.current_region = None]

\* OpenGroup were current_region left as it is
OpenGroup_KeepsRegion(P) ==
    [P EXCEPT !.current_section = "group",
              !.data.groups = Append(@, NewGroup),
              !.current_group = <<Len(P.data.groups) + 1>>]

\* the branch of <master> and the branch of <group>
OpenGroup(P) ==
    [P EXCEPT !.current_section = "group",
              !.data.groups = Append(@, NewGroup),
              !.current_group = <<Len(P.data.groups) + 1>>,
              !.current_region = None]

\* Snapshot with the two update() calls in the other order: global wins
Snapshot_GlobalWins(global, opcodes) == Update(Update(EmptyMap, opcodes), global)

\* region = {}; region.update(global); region.update(group opcodes)
Snapshot(global, opcodes) == Update(Update(EmptyMap, global), opcodes)

\* OpenRegion were the region put into the region list of every group
OpenRegion_InEveryGroup(P, line) ==
    LET G  == IF P.current_group = None
              THEN [P EXCEPT !.data.groups = Append(@, NewGroup),
                             !.current_group = <<Len(P.data.groups) + 1>>]
              ELSE P
        g  == GroupIndex(G)
        region == Snapshot(G.data.global, G.data.groups[g].opcodes)
        R  == [G EXCEPT !.current_section = "region",
                        !.data.groups =
                            [h \in 1..Len(@) |->
                                [@[h] EXCEPT !.regions = Append(@, region)]],
                        !.current_region =
                            <<g, Len(G.data.groups[g].regions) + 1>>]
        rest_of_line == Strip(SliceFrom(line, 8))
    IN  IF rest_of_line # << >> /\ Contains(rest_of_line, <<"=">>)
        THEN StoreRegionOpcodes(R, extract_opcodes(rest_of_line))
        ELSE R

\* the branch of <region>
OpenRegion(P, line) ==
    LET G  == IF P.current_group = None
              THEN [P EXCEPT !.data.groups = Append(@, NewGroup),
                             !.current_group = <<Len(P.data.groups) + 1>>]
              ELSE P
        g  == GroupIndex(G)
        region == Snapshot(G.data.global, G.data.groups[g].opcodes)
        R  == [G EXCEPT !.current_section = "region",
                        !.data.groups[g].regions = Append(@, region),
                        !.current_region =
                            <<g, Len(G.data.groups[g].regions) + 1>>]
        rest_of_line == Strip(SliceFrom(line, 8))
    IN  IF rest_of_line # << >> /\ Contains(rest_of_line, <<"=">>)
        THEN StoreRegionOpcodes(R, extract_opcodes(rest_of_line))
        ELSE R

\* The line after the inline comment is removed.
Uncomment(line) ==
    IF Contains(line, CommentMark) THEN Strip(SplitFirst(line, CommentMark)) ELSE line

\* The path an #include line asks parse_file for: << >> when the line has
\* no quoted path, else the one-element sequence holding include_file.
IncludeTarget(P, line, base_path) ==
    LET m == IncludeMatch(line)
    IN  IF m = << >> THEN << >>
        ELSE << ResolvePath(base_path,
                   Replace(ReplaceMacros(m[1], P.defines), <<"\\">>, <<"/">>)) >>

\* process_line were the text after a <control> or <global> marker parsed
\* like the text after a <region> marker
process_line_ScopeLineParsed(P, raw, base_path) ==
    IF raw = << >> \/ StartsWith(raw, CommentMark) THEN P
    ELSE
      LET line == Uncomment(raw)
      IN  IF StartsWith(line, DefineDirective)
          THEN LET m == DefineMatch(line)
               IN  IF m = << >> THEN P
                   ELSE [P EXCEPT !.defines = Define(@, m[1], Strip(m[2]))]
          ELSE IF StartsWith(line, IncludeDirective) THEN P
          ELSE IF StartsWith(line, ControlMarker)
          THEN StoreOpcodes([P EXCEPT !.current_section = "control"],
                            extract_opcodes(Strip(SliceFrom(line, 9))))
          ELSE IF StartsWith(line, GlobalMarker)
          THEN StoreOpcodes([P EXCEPT !.current_section = "global"],
                            extract_opcodes(Strip(SliceFrom(line, 8))))
          ELSE IF StartsWith(line, MasterMarker) THEN OpenGroup(P)
          ELSE IF StartsWith(line, GroupMarker) THEN OpenGroup(P)
          ELSE IF StartsWith(line, RegionMarker) THEN OpenRegion(P, line)
          ELSE IF Contains(line, <<"=">>)
          THEN StoreOpcodes(P, extract_opcodes(line))
          ELSE P

\* process_line without the call of parse_file that an #include line makes:
\* the parser state after the line
process_line(P, raw, base_path) ==
    IF raw = << >> \/ StartsWith(raw, CommentMark) THEN P
    ELSE
      LET line == Uncomment(raw)
      IN  IF StartsWith(line, DefineDirective)
          THEN LET m == DefineMatch(line)
               IN  IF m = << >> THEN P
                   ELSE [P EXCEPT !.defines = Define(@, m[1], Strip(m[2]))]
          ELSE IF StartsWith(line, IncludeDirective) THEN P
          ELSE IF StartsWith(line, ControlMarker)
          THEN [P EXCEPT !.current_section = "control"]
          ELSE IF StartsWith(line, GlobalMarker)
          THEN [P EXCEPT !.current_section = "global"]
          ELSE IF StartsWith(line, MasterMarker) THEN OpenGroup(P)
          ELSE IF StartsWith(line, GroupMarker) THEN OpenGroup(P)
          ELSE IF StartsWith(line, RegionMarker) THEN OpenRegion(P, line)
          ELSE IF Contains(line, <<"=">>)
          THEN StoreOpcodes(P, extract_opcodes(line))
          ELSE P

\* Whether process_line reaches the #include branch for the line, and the
\* path it then resolves (<< >>: no quoted path).
IsIncludeLine(raw) ==
    /\ raw # << >>
    /\ ~StartsWith(raw, CommentMark)
    /\ ~StartsWith(Uncomment(raw), DefineDirective)
    /\ StartsWith(Uncomment(raw), IncludeDirective)

\* ------------------------------------------------------------------------
\* SFZParser.normalize
\* ------------------------------------------------------------------------

K_default_path    == <<"d", "e", "f", "a", "u", "l", "t", "_", "p", "a", "t", "h">>
K_sample          == <<"s", "a", "m", "p", "l", "e">>
K_lokey           == <<"l", "o", "k", "e", "y">>
K_hikey           == <<"h", "i", "k", "e", "y">>
K_lovel           == <<"l", "o", "v", "e", "l">>
K_hivel           == <<"h", "i", "v", "e", "l">>
K_pitch_keycenter == <<"p", "i", "t", "c", "h", "_", "k", "e", "y", "c", "e", "n", "t", "e", "r">>
K_tune            == <<"t", "u", "n", "e">>
K_volume          == <<"v", "o", "l", "u", "m", "e">>
K_loop_mode       == <<"l", "o", "o", "p", "_", "m", "o", "d", "e">>
K_ampeg_attack    == <<"a", "m", "p", "e", "g", "_", "a", "t", "t", "a", "c", "k">>
K_ampeg_decay     == <<"a", "m", "p", "e", "g", "_", "d", "e", "c", "a", "y">>
K_ampeg_sustain   == <<"a", "m", "p", "e", "g", "_", "s", "u", "s", "t", "a", "i", "n">>
K_ampeg_release   == <<"a", "m", "p", "e", "g", "_", "r", "e", "l", "e", "a", "s", "e">>
OneShot           == <<"o", "n", "e", "_", "s", "h", "o", "t">>

\* the None that region.get("sample", None) returns
NoneValue == [t |-> "none", n |-> 0, k |-> 0, s |-> << >>]

\* "/".join(parts)
RECURSIVE JoinSlash(_)
JoinSlash(parts) ==
    IF parts = << >> THEN << >>
    ELSE IF Len(parts) = 1 THEN parts[1]
    ELSE parts[1] \o <<"/">> \o JoinSlash(Tail(parts))

\* the components a pure POSIX path keeps: not the empty ones, not "."
RECURSIVE PathParts(_)
PathParts(comps) ==
    IF comps = << >> THEN << >>
    ELSE IF Head(comps) \in {<< >>, <<".">>} THEN PathParts(Tail(comps))
    ELSE << Head(comps) >> \o PathParts(Tail(comps))

\* the root of a POSIX path: "/", or "//" for exactly two leading slashes
PathRoot(text) ==
    IF StartsWith(text, <<"/", "/">>) /\ ~StartsWith(text, <<"/", "/", "/">>)
    THEN <<"/", "/">>
    ELSE IF StartsWith(text, <<"/">>) THEN <<"/">>
    ELSE << >>

\* str(Path(default_path) / sample) on a POSIX system
PathJoin(default_path, sample) ==
    LET root  == IF StartsWith(sample, <<"/">>)
                 THEN PathRoot(sample) ELSE PathRoot(default_path)
        parts == IF StartsWith(sample, <<"/">>)
                 THEN PathParts(Components(sample))
                 ELSE PathParts(Components(default_path) \o Components(sample))
    IN  IF root = << >> /\ parts = << >> THEN <<".">>
        ELSE root \o JoinSlash(parts)

\* Whether the sample path of a region can be computed: Path() and "/"
\* raise TypeError on a value that is not a str, and int and float have no
\* replace().
SampleFails(sample, default_path) ==
    /\ Truthy(sample)
    /\ \/ sample.t # "str"
       \/ Truthy(default_path) /\ default_path.t # "str"

\* the sample of a descriptor
SamplePath(sample, default_path) ==
    IF Truthy(sample) /\ Truthy(default_path)
    THEN StrValue(Replace(PathJoin(default_path.s, sample.s), <<"\\">>, <<"/">>))
    ELSE IF Truthy(sample)
    THEN StrValue(Replace(sample.s, <<"\\">>, <<"/">>))
    ELSE sample

\* Descriptor were the velocity range read from the keys of the key range
Descriptor_VelFromKeys(region, default_path) ==
    [sample    |-> SamplePath(Get(region, K_sample, NoneValue), default_path),
     key_range |-> << Get(region, K_lokey, IntValue(0)),
                      Get(region, K_hikey, IntValue(127)) >>,
     vel_range |-> << Get(region, K_lokey, IntValue(0)),
                      Get(region, K_hikey, IntValue(127)) >>,
     root_key  |-> Get(region, K_pitch_keycenter,
                       Get(region, K_lokey, IntValue(60))),
     tune      |-> Get(region, K_tune, IntValue(0)),
     volume    |-> Get(region, K_volume, IntValue(0)),
     loop_mode |-> Get(region, K_loop_mode, StrValue(OneShot)),
     amp_env   |-> [attack  |-> Get(region, K_ampeg_attack, FloatValue(0, 0)),
                    decay   |-> Get(region, K_ampeg_decay, FloatValue(0, 0)),
                    sustain |-> Get(region, K_ampeg_sustain, FloatValue(1, 0)),
                    release |-> Get(region, K_ampeg_release, FloatValue(0, 0))]]

\* Descriptor were lokey to come before pitch_keycenter for the root key
Descriptor_LokeyFirst(region, default_path) ==
    [sample    |-> SamplePath(Get(region, K_sample, NoneValue), default_path),
     key_range |-> << Get(region, K_lokey, IntValue(0)),
                      Get(region, K_hikey, IntValue(127)) >>,
     vel_range |-> << Get(region, K_lovel, IntValue(0)),
                      Get(region, K_hivel, IntValue(127)) >>,
     root_key  |-> Get(region, K_lokey,
                       Get(region, K_pitch_keycenter, IntValue(60))),
     tune      |-> Get(region, K_tune, IntValue(0)),
     volume    |-> Get(region, K_volume, IntValue(0)),
     loop_mode |-> Get(region, K_loop_mode, StrValue(OneShot)),
     amp_env   |-> [attack  |-> Get(region, K_ampeg_attack, FloatValue(0, 0)),
                    decay   |-> Get(region, K_ampeg_decay, FloatValue(0, 0)),
                    sustain |-> Get(region, K_ampeg_sustain, FloatValue(1, 0)),
                    release |-> Get(region, K_ampeg_release, FloatValue(0, 0))]]

\* norm = {...}: the descriptor of one region
Descriptor(region, default_path) ==
    [sample    |-> SamplePath(Get(region, K_sample, NoneValue), default_path),
     key_range |-> << Get(region, K_lokey, IntValue(0)),
                      Get(region, K_hikey, IntValue(127)) >>,
     vel_range |-> << Get(region, K_lovel, IntValue(0)),
                      Get(region, K_hivel, IntValue(127)) >>,
     root_key  |-> Get(region, K_pitch_keycenter,
                       Get(region, K_lokey, IntValue(60))),
     tune      |-> Get(region, K_tune, IntValue(0)),
     volume    |-> Get(region, K_volume, IntValue(0)),
     loop_mode |-> Get(region, K_loop_mode, StrValue(OneShot)),
     amp_env   |-> [attack  |-> Get(region, K_ampeg_attack, FloatValue(0, 0)),
                    decay   |-> Get(region, K_ampeg_decay, FloatValue(0, 0)),
                    sustain |-> Get(region, K_ampeg_sustain, FloatValue(1, 0)),
                    release |-> Get(region, K_ampeg_release, FloatValue(0, 0))]]

\* the regions of all groups, in the order of the two nested loops
RECURSIVE AllRegions(_)
AllRegions(groups) ==
    IF groups = << >> THEN << >>
    ELSE groups[1].regions \o AllRegions(Tail(groups))

\* self.data["control"].get("default_path", "")
DefaultPath(d) == Get(d.control, K_default_path, StrValue(<< >>))

\* normalize() raises (TypeError or AttributeError, at the first region
\* whose sample path cannot be computed)
NormalizeFails(d) ==
    \E i \in 1..Len(AllRegions(d.groups)) :
        SampleFails(Get(AllRegions(d.groups)[i], K_sample, NoneValue), DefaultPath(d))

\* the document normalize() returns
normalize(d) ==
    [control |-> d.control,
     regions |-> [i \in 1..Len(AllRegions(d.groups)) |->
                     Descriptor(AllRegions(d.groups)[i], DefaultPath(d))]]

\* ------------------------------------------------------------------------
\* The program state
\* ------------------------------------------------------------------------

VARIABLES
    data,             \* self.data: control, global, groups
    defines,          \* self.defines, in insertion order
    current_section,  \* self.current_section
    current_group,    \* self.current_group
    current_region,   \* self.current_region
    processed_files,  \* self.processed_files
    stack,            \* the active calls of parse_file, the innermost last
    phase,            \* where main() is
    normalized,       \* main's local `normalized`: << >> or <<document>>
    output,           \* the output file: << >> or <<document written>>
    present,          \* the files that exist
    files,            \* the lines each file has yielded so far
    closed,           \* the files whose end has been read
    log,              \* the calls of process_line: <<file, line number>>
    step,             \* the step taken last
    before            \* the parser, processed_files and stack when the most
                      \* recent call of process_line began

vars == <<data, defines, current_section, current_group, current_region,
          processed_files, stack, phase, normalized, output, present, files,
          closed, log, step, before>>

\* the most lines the input files hold, all files together
MaxLines == 5

\* the depth of parse_file calls at which Python raises RecursionError
MaxDepth == 3

\* the working directory, and the file named on the command line
Cwd == << <<"d">> >>
TopName == <<"a">>
TopFile == ResolvePath(Cwd, TopName)
OtherFile == ResolvePath(Cwd, <<"b">>)

\* the fields of the parser object
Parser ==
    [data |-> data, defines |-> defines, current_section |-> current_section,
     current_group |-> current_group, current_region |-> current_region]

\* SFZParser.__init__, and main() before its call of parse_file; Files are
\* the paths that may exist
InitOver(Files) ==
    /\ data = [control |-> EmptyMap, global |-> EmptyMap, groups |-> << >>]
    /\ defines = << >>
    /\ current_section = NoSection
    /\ current_group = None
    /\ current_region = None
    /\ processed_files = {}
    /\ stack = << >>
    /\ phase = "start"
    /\ normalized = << >>
    /\ output = << >>
    /\ present \in SUBSET Files
    /\ files = [f \in Files |-> << >>]
    /\ closed = {}
    /\ log = << >>
    /\ step = "init"
    /\ before = [parser |-> Parser, processed_files |-> {}, stack |-> << >>]

\* parse_file without its check of processed_files
parse_file_NoGuard(filepath, processed, existing) ==
    IF filepath \notin existing THEN "missing" ELSE "open"

\* What parse_file does with a path before it reads it: "skip" (already
\* processed), "missing" (not found) or "open" (added to processed_files
\* and read).
parse_file(filepath, processed, existing) ==
    IF filepath \in processed THEN "skip"
    ELSE IF filepath \notin existing THEN "missing"
    ELSE "open"

\* IncludeCall were the path recorded and read without a look at whether
\* the file exists
IncludeCall_NoCheck(include_file, processed, existing) ==
    IF include_file \in processed THEN "skip" ELSE "open"

\* What the #include branch of process_line does with include_file:
\* "missing" (reported, parse_file is not called), else what parse_file does
IncludeCall(include_file, processed, existing) ==
    IF include_file \in existing
    THEN parse_file(include_file, processed, existing)
    ELSE "missing"

\* the number of lines the files have yielded, all files together
RECURSIVE LinesIn(_)
LinesIn(F) ==
    IF F = {} THEN 0
    ELSE LET f == CHOOSE x \in F : TRUE
         IN  Len(files[f]) + LinesIn(F \ {f})

TotalLines == LinesIn(DOMAIN files)

Frame(filepath) == [file |-> filepath, pos |-> 0]

\* CallParseFile were the file read after the calls that are active have
\* returned
CallParseFile_Deferred(calls, filepath) == << Frame(filepath) >> \o calls

\* self.parse_file(include_file) inside process_line: the new call is the
\* innermost one, and the calls that are active wait for its return
CallParseFile(calls, filepath) == Append(calls, Frame(filepath))

\* main(): parser.parse_file(sfz_file), up to the first line of the file
Main_ParseFile ==
    /\ phase = "start"
    /\ IF parse_file(TopFile, processed_files, present) = "open"
       THEN /\ processed_files' = processed_files \cup {TopFile}
            /\ stack' = << Frame(TopFile) >>
            /\ phase' = "parsing"
       ELSE /\ phase' = "parsed"
            /\ UNCHANGED <<processed_files, stack>>
    /\ step' = "parse_file"
    /\ UNCHANGED <<data, defines, current_section, current_group, current_region,
                   normalized, output, present, files, closed, log, before>>

\* the lines the file of the innermost call may yield next: the line it
\* yielded at that position before, else any line of the corpus
NextLines(Corpus) ==
    LET top == stack[Len(stack)]
    IN  IF top.pos < Len(files[top.file]) THEN {files[top.file][top.pos + 1]}
        ELSE IF top.file \notin closed /\ TotalLines < MaxLines THEN Corpus
        ELSE {}

\* One turn of the loop of parse_file: process_line on the next line of the
\* file, with the call of parse_file that an #include line makes.
ProcessLine(Corpus) ==
    /\ phase = "parsing"
    /\ \E raw_line \in NextLines(Corpus) :
        LET top    == stack[Len(stack)]
            line   == Strip(raw_line)
            R      == process_line(Parser, line, Parent(top.file))
            target == IF IsIncludeLine(line)
                      THEN IncludeTarget(Parser, Uncomment(line), Parent(top.file))
                      ELSE << >>
            enter  == /\ target # << >>
                      /\ IncludeCall(target[1], processed_files, present) = "open"
            read   == [stack EXCEPT ![Len(stack)].pos = @ + 1]
        IN  /\ data' = R.data
            /\ defines' = R.defines
            /\ current_section' = R.current_section
            /\ current_group' = R.current_group
            /\ current_region' = R.current_region
            /\ files' = IF top.pos < Len(files[top.file]) THEN files
                        ELSE [files EXCEPT ![top.file] = Append(@, raw_line)]
            /\ log' = Append(log, <<top.file, top.pos + 1>>)
            /\ IF enter /\ Len(stack) >= MaxDepth
               THEN /\ phase' = "crashed"
                    /\ UNCHANGED <<stack, processed_files>>
               ELSE IF enter
               THEN /\ processed_files' = processed_files \cup {target[1]}
                    /\ stack' = CallParseFile(read, target[1])
                    /\ phase' = phase
               ELSE /\ stack' = read
                    /\ UNCHANGED <<processed_files, phase>>
    /\ step' = "process_line"
    /\ before' = [parser |-> Parser, processed_files |-> processed_files,
                  stack |-> stack]
    /\ UNCHANGED <<normalized, output, present, closed>>

\* EndOfFile were the return to an #include line to reset the active
\* section and the current region
EndOfFile_Resets ==
    /\ phase = "parsing"
    /\ LET top == stack[Len(stack)]
       IN  /\ top.pos = Len(files[top.file])
           /\ closed' = closed \cup {top.file}
    /\ stack' = SubSeq(stack, 1, Len(stack) - 1)
    /\ phase' = IF Len(stack) = 1 THEN "parsed" ELSE phase
    /\ current_section' = IF Len(stack) = 1 THEN current_section ELSE NoSection
    /\ current_region' = IF Len(stack) = 1 THEN current_region ELSE None
    /\ step' = "return"
    /\ UNCHANGED <<data, defines, current_group, processed_files, normalized,
                   output, present, files, log, before>>

\* The file of the innermost call is exhausted: parse_file returns, to the
\* #include line that called it or to main().
EndOfFile ==
    /\ phase = "parsing"
    /\ LET top == stack[Len(stack)]
       IN  /\ top.pos = Len(files[top.file])
           /\ closed' = closed \cup {top.file}
    /\ stack' = SubSeq(stack, 1, Len(stack) - 1)
    /\ phase' = IF Len(stack) = 1 THEN "parsed" ELSE phase
    /\ step' = "return"
    /\ UNCHANGED <<data, defines, current_section, current_group, current_region,
                   processed_files, normalized, output, present, files, log,
                   before>>

\* main(): normalized = parser.normalize()
Normalize ==
    /\ phase = "parsed"
    /\ IF NormalizeFails(data)
       THEN phase' = "crashed" /\ UNCHANGED normalized
       ELSE phase' = "normalized" /\ normalized' = << normalize(data) >>
    /\ step' = "normalize"
    /\ UNCHANGED <<data, defines, current_section, current_group, current_region,
                   processed_files, stack, output, present, files, closed, log,
                   before>>

\* main(): json.dump(normalized, f) into the output file
Main_Write ==
    /\ phase = "normalized"
    /\ output' = normalized
    /\ phase' = "written"
    /\ step' = "write"
    /\ UNCHANGED <<data, defines, current_section, current_group, current_region,
                   processed_files, stack, normalized, present, files, closed, log,
                   before>>

\* ------------------------------------------------------------------------
\* Input lines and specifications
\* ------------------------------------------------------------------------

K_v == <<"v">>
K_w == <<"w">>

L_control == ControlMarker
L_global  == GlobalMarker
L_group   == GroupMarker
L_master  == MasterMarker
L_region  == RegionMarker

\* v=1
L_v1 == <<"v", "=", "1">>
\* v=2 w=5
L_v2_w5 == <<"v", "=", "2", " ", "w", "=", "5">>
\* <region> v=3 w=4
L_region_v3_w4 == RegionMarker \o <<" ", "v", "=", "3", " ", "w", "=", "4">>

\* the lines of the section state machine
SectionLines == {L_global, L_group, L_region, L_region_v3_w4, L_v1, L_v2_w5}

Init == InitOver({TopFile})

Next ==
    \/ Main_ParseFile
    \/ ProcessLine(SectionLines)
    \/ EndOfFile
    \/ Normalize
    \/ Main_Write

\* one instrument file, of section markers and attribute lines
Spec == Init /\ [][Next]_vars

\* #include "a" and #include "b": the top-level file and the other file
L_include_a == IncludeDirective \o <<" ", "\"", "a", "\"">>
L_include_b == IncludeDirective \o <<" ", "\"", "b", "\"">>

\* the lines of two files that include each other and themselves
IncludeLines == {L_include_a, L_include_b, L_group, L_region_v3_w4, L_v1}

InitInc == InitOver({TopFile, OtherFile})

NextInc ==
    \/ Main_ParseFile
    \/ ProcessLine(IncludeLines)
    \/ EndOfFile
    \/ Normalize
    \/ Main_Write

\* two files with #include lines among their lines
SpecInc == InitInc /\ [][NextInc]_vars

\* the lines of two files that hold little else than #include lines
LoopLines == {L_include_a, L_include_b, L_group}

NextLoop ==
    \/ Main_ParseFile
    \/ ProcessLine(LoopLines)
    \/ EndOfFile
    \/ Normalize
    \/ Main_Write

\* <global> ampeg_release=0.5, ampeg_release=0.5 and
\* <region> ampeg_release=0.1
L_global_release == GlobalMarker \o <<" ">> \o K_ampeg_release \o <<"=", "0", ".", "5">>
L_release        == K_ampeg_release \o <<"=", "0", ".", "5">>
L_region_release == RegionMarker \o <<" ">> \o K_ampeg_release \o <<"=", "0", ".", "1">>

\* the lines of an instrument that sets the release time of its envelopes
ReleaseLines ==
    {L_global_release, L_global, L_release, L_group, L_region_release, L_region}

NextRelease ==
    \/ Main_ParseFile
    \/ ProcessLine(ReleaseLines)
    \/ EndOfFile
    \/ Normalize
    \/ Main_Write

\* one instrument file that sets ampeg_release
SpecRelease == Init /\ [][NextRelease]_vars

\* lokey=3, hikey=5, lovel=1 hivel=9 and <region> pitch_keycenter=7
L_lokey == K_lokey \o <<"=", "3">>
L_hikey == K_hikey \o <<"=", "5">>
L_vel   == K_lovel \o <<"=", "1", " ">> \o K_hivel \o <<"=", "9">>
L_region_center == RegionMarker \o <<" ">> \o K_pitch_keycenter \o <<"=", "7">>

\* the lines of an instrument that sets key and velocity ranges
RangeLines == {L_group, L_region, L_region_center, L_lokey, L_hikey, L_vel}

NextRange ==
    \/ Main_ParseFile
    \/ ProcessLine(RangeLines)
    \/ EndOfFile
    \/ Normalize
    \/ Main_Write

\* one instrument file that sets key ranges, velocity ranges and root keys
SpecRange == Init /\ [][NextRange]_vars

\* #define $A x, #define $AB y, s=$AB t=$A/k and <region> s=$AB t=$A/k
M_A  == <<"A">>
M_AB == <<"A", "B">>
K_s  == <<"s">>
K_t  == <<"t">>
L_define_A   == DefineDirective \o <<" ", "$", "A", " ", "x">>
L_define_AB  == DefineDirective \o <<" ", "$", "A", "B", " ", "y">>
L_use        == <<"s", "=", "$", "A", "B", " ", "t", "=", "$", "A", "/", "k">>
L_region_use == RegionMarker \o <<" ">> \o L_use

\* the lines of two files that define and use macros
MacroLines ==
    {L_define_A, L_define_AB, L_use, L_region_use, L_include_b}

NextMacro ==
    \/ Main_ParseFile
    \/ ProcessLine(MacroLines)
    \/ EndOfFile
    \/ Normalize
    \/ Main_Write

\* two files that define macros and use them in attribute values
SpecMacro == InitInc /\ [][NextMacro]_vars

\* the attribute texts handed to the tokenizer: sample=My Piano.wav lovel=0,
\* a=1 b=2, a=1  b= c=x y, a=b=c, x =5, =5, v and a=1 =2
T_sample ==
    <<"s", "a", "m", "p", "l", "e", "=", "M", "y", " ", "P", "i", "a",
      "n", "o", ".", "w", "a", "v", " ", "l", "o", "v", "e", "l", "=",
      "0">>
T_two ==
    <<"a", "=", "1", " ", "b", "=", "2">>
T_gap ==
    <<"a", "=", "1", " ", " ", "b", "=", " ", "c", "=", "x", " ", "y">>
T_nested ==
    <<"a", "=", "b", "=", "c">>
T_nokey ==
    <<"x", " ", "=", "5">>
T_lead ==
    <<"=", "5">>
T_none ==
    <<"v">>
T_mid ==
    <<"a", "=", "1", " ", "=", "2">>

\* the lines of a file of attribute texts under a <global> marker
TokenLines ==
    {L_global, T_sample, T_two, T_gap, T_nested, T_nokey, T_lead, T_none, T_mid}

\* the most lines a file of attribute texts holds
MaxTokenLines == 2

NextToken ==
    \/ Main_ParseFile
    \/ TotalLines < MaxTokenLines /\ ProcessLine(TokenLines)
    \/ EndOfFile
    \/ Normalize
    \/ Main_Write

\* one short file of attribute texts
SpecToken == Init /\ [][NextToken]_vars

\* #define $A $B, #define $B z, <region> s=$A and s=$A
M_B == <<"B">>
L_define_A_B == DefineDirective \o <<" ", "$", "A", " ", "$", "B">>
L_define_B   == DefineDirective \o <<" ", "$", "B", " ", "z">>
L_sA         == <<"s", "=", "$", "A">>
L_region_sA  == RegionMarker \o <<" ">> \o L_sA

\* the lines of a file whose macros refer to one another
NestLines == {L_define_A_B, L_define_B, L_region_sA, L_sA}

NextNest ==
    \/ Main_ParseFile
    \/ ProcessLine(NestLines)
    \/ EndOfFile
    \/ Normalize
    \/ Main_Write

\* one file whose macros refer to one another
SpecNest == Init /\ [][NextNest]_vars

\* <master> v=1 and <control> v=1
L_master_v1  == MasterMarker \o <<" ">> \o L_v1
L_control_v1 == ControlMarker \o <<" ">> \o L_v1

\* the lines of a file that opens sections of every kind
MarkerLines ==
    {L_group, L_master_v1, L_region_v3_w4, L_global_release, L_control_v1, L_v1}

NextMarker ==
    \/ Main_ParseFile
    \/ ProcessLine(MarkerLines)
    \/ EndOfFile
    \/ Normalize
    \/ Main_Write

\* one file that opens sections of every kind
SpecMarker == Init /\ [][NextMarker]_vars

\* #include "c", and the third file
L_include_c == IncludeDirective \o <<" ", "\"", "c", "\"">>
ThirdFile == ResolvePath(Cwd, <<"c">>)

\* the lines of three files that include one another
DeepLines == {L_include_b, L_include_c, L_v1}

InitDeep == InitOver({TopFile, OtherFile, ThirdFile})

NextDeep ==
    \/ Main_ParseFile
    \/ ProcessLine(DeepLines)
    \/ EndOfFile
    \/ Normalize
    \/ Main_Write

\* three files that include one another
SpecDeep == InitDeep /\ [][NextDeep]_vars

\* <region> sample=k and <region> sample=1
L_region_sample_k == RegionMarker \o <<" ">> \o K_sample \o <<"=", "k">>
L_region_sample_1 == RegionMarker \o <<" ">> \o K_sample \o <<"=", "1">>

\* the lines of a file whose regions name their samples
SampleLines == {L_group, L_region, L_region_sample_k, L_region_sample_1}

NextSample ==
    \/ Main_ParseFile
    \/ ProcessLine(SampleLines)
    \/ EndOfFile
    \/ Normalize
    \/ Main_Write

\* one file whose regions name their samples
SpecSample == Init /\ [][NextSample]_vars

\* main() has not ended: a step can be taken (ENABLED <<NextLoop>>_vars)
Running == phase \notin {"written", "crashed"}

\* The program is sequential and each of its steps returns, so it does not
\* stop while a step can be taken: WF_vars(NextLoop), written with Running
\* for ENABLED <<NextLoop>>_vars.
Progress == []<>(~Running) \/ []<><<NextLoop>>_vars

\* two files that include each other and themselves
SpecLoop == InitInc /\ [][NextLoop]_vars /\ Progress

\* ------------------------------------------------------------------------
\* What a step did
\* ------------------------------------------------------------------------

\* the line most recently handed to process_line, as handed (stripped)
LastLine == Strip(files[log[Len(log)][1]][log[Len(log)][2]])

\* the file whose line was handed to process_line most recently
LastFile == log[Len(log)][1]

\* the step taken last is a call of process_line, which `before` describes
LineProcessed == step = "process_line"

\* process_line takes the line to a section marker or to the opcode parsing
Reaches(raw) ==
    /\ raw # << >>
    /\ ~StartsWith(raw, CommentMark)
    /\ ~StartsWith(Uncomment(raw), DefineDirective)
    /\ ~StartsWith(Uncomment(raw), IncludeDirective)

IsRegionLine(raw) == Reaches(raw) /\ StartsWith(Uncomment(raw), RegionMarker)

IsMarkerLine(raw) ==
    /\ Reaches(raw)
    /\ \E m \in {ControlMarker, GlobalMarker, MasterMarker, GroupMarker, RegionMarker} :
           StartsWith(Uncomment(raw), m)

\* a plain attribute line: contains "=", is not a directive or a marker
IsAttributeLine(raw) ==
    /\ Reaches(raw)
    /\ ~IsMarkerLine(raw)
    /\ Contains(Uncomment(raw), <<"=">>)

\* the keys of a sequence of (key, value) pairs, and the value that the
\* last pair with the key gives
KeysOf(pairs) == {pairs[i][1] : i \in 1..Len(pairs)}

LastValue(pairs, key) ==
    pairs[SetMax({i \in 1..Len(pairs) : pairs[i][1] = key})][2]

\* the (key, resolved value) pairs of a text, with the macros of `defs`
ResolvedPairs(text, defs) ==
    [i \in 1..Len(extract_opcodes(text)) |->
        << extract_opcodes(text)[i][1],
           parse_value(ReplaceMacros(extract_opcodes(text)[i][2], defs)) >>]

\* ------------------------------------------------------------------------
\* C1
\* ------------------------------------------------------------------------

\* C1: a plain attribute line processed while the active section is Global
\* or Group leaves the list of groups as long as it was and the mapping of
\* every region that exists unchanged.
C1_SnapshotKept ==
    (/\ LineProcessed
     /\ before.parser.current_section \in {"global", "group"}
     /\ IsAttributeLine(LastLine))
    => /\ Len(data.groups) = Len(before.parser.data.groups)
       /\ \A g \in 1..Len(data.groups) :
             data.groups[g].regions = before.parser.data.groups[g].regions

\* A region created when global had v = 1 still has v = 1 right after a
\* global attribute line has set v = 2.
C1_Witness ==
    /\ LineProcessed
    /\ IsAttributeLine(LastLine)
    /\ before.parser.current_section = "global"
    /\ Get(data.global, K_v, NoneValue) = IntValue(2)
    /\ \E i \in 1..Len(AllRegions(data.groups)) :
           Get(AllRegions(data.groups)[i], K_v, NoneValue) = IntValue(1)

\* ------------------------------------------------------------------------
\* C2
\* ------------------------------------------------------------------------

\* the mapping C2 states for a new region: the pairs of the marker's line
\* over the opcodes of the group over the global scope
OverlayOf(global, opcodes, pairs) ==
    [key \in DOMAIN global \cup DOMAIN opcodes \cup KeysOf(pairs) |->
        IF key \in KeysOf(pairs) THEN LastValue(pairs, key)
        ELSE IF key \in DOMAIN opcodes THEN opcodes[key]
        ELSE global[key]]

\* C2: a region marker line makes current_region a region whose mapping is
\* the global mapping overlaid by the opcodes of the current group (empty
\* when the marker itself opens the group) and then by the resolved pairs
\* that follow the marker on the line.
C2_RegionIsOverlay ==
    (LineProcessed /\ IsRegionLine(LastLine))
    => /\ current_region # None
       /\ RegionAt(data.groups, current_region) =
            OverlayOf(before.parser.data.global,
                      IF before.parser.current_group = None THEN EmptyMap
                      ELSE before.parser.data.groups[before.parser.current_group[1]].opcodes,
                      ResolvedPairs(Strip(SliceFrom(Uncomment(LastLine), 8)),
                                    before.parser.defines))

\* The line <region> v=3 w=4 has just made a region with v = 3 and w = 4
\* in a group that gives v = 2 and w = 5, under a global scope with v = 1.
C2_Witness ==
    /\ LineProcessed
    /\ LastLine = L_region_v3_w4
    /\ current_group # None
    /\ current_region # None
    /\ Get(data.global, K_v, NoneValue) = IntValue(1)
    /\ Get(data.groups[current_group[1]].opcodes, K_v, NoneValue) = IntValue(2)
    /\ Get(data.groups[current_group[1]].opcodes, K_w, NoneValue) = IntValue(5)
    /\ RegionAt(data.groups, current_region) = (K_v :> IntValue(3)) @@ (K_w :> IntValue(4))

\* ------------------------------------------------------------------------
\* C3
\* ------------------------------------------------------------------------

\* C3: the call of parse_file on the top-level file returns to main(),
\* whatever the files include.
C3_ParseFileReturns == <>(phase = "parsed")

\* parse_file has returned to main() after a cycle: the top-level file
\* included the other file, which included the top-level file again.
C3_Witness ==
    /\ phase = "parsed"
    /\ OtherFile \in processed_files
    /\ \E i \in 1..Len(files[TopFile]) : files[TopFile][i] = L_include_b
    /\ \E i \in 1..Len(files[OtherFile]) : files[OtherFile][i] = L_include_a

\* ------------------------------------------------------------------------
\* C4
\* ------------------------------------------------------------------------

\* the mapping after the pairs are stored into it
StoredInto(mapping, pairs) == OverlayOf(mapping, EmptyMap, pairs)

\* C4: a plain attribute line stores every resolved pair into the mapping
\* of the active section (the control mapping, the global mapping, the
\* current group's opcodes, the current region, the empty region
\* included) and changes no other mapping.
C4_AttributesStored ==
    (LineProcessed /\ IsAttributeLine(LastLine))
    => LET P     == before.parser
           pairs == ResolvedPairs(Uncomment(LastLine), P.defines)
       IN  CASE P.current_section = "control" ->
                  data = [P.data EXCEPT !.control = StoredInto(@, pairs)]
             [] P.current_section = "global" ->
                  data = [P.data EXCEPT !.global = StoredInto(@, pairs)]
             [] P.current_section = "group" ->
                  /\ P.current_group # None
                  /\ data = [P.data EXCEPT !.groups[P.current_group[1]].opcodes =
                                               StoredInto(@, pairs)]
             [] P.current_section = "region" ->
                  /\ P.current_region # None
                  /\ data = [P.data EXCEPT
                               !.groups[P.current_region[1]].regions[P.current_region[2]] =
                                   StoredInto(@, pairs)]
             [] OTHER -> TRUE

\* ------------------------------------------------------------------------
\* C5
\* ------------------------------------------------------------------------

\* the line of the i-th call of process_line
LineAt(i) == Strip(files[log[i][1]][log[i][2]])

\* the calls of process_line before the last one whose line is a #define
\* line that names a macro and gives it a text
EarlierDefines ==
    {i \in 1..(Len(log) - 1) :
        /\ LineAt(i) # << >>
        /\ ~StartsWith(LineAt(i), CommentMark)
        /\ StartsWith(Uncomment(LineAt(i)), DefineDirective)
        /\ DefineMatch(Uncomment(LineAt(i))) # << >>}

\* the macros those lines define: for each of the calls, the name and the
\* replacement text its line gives
EarlierMacros ==
    [i \in EarlierDefines |->
        << DefineMatch(Uncomment(LineAt(i)))[1],
           Strip(DefineMatch(Uncomment(LineAt(i)))[2]) >>]

\* the names a table of such macros defines, the call that defined a name
\* first, and the replacement text its latest #define line gave
NamesOf(table) == {table[i][1] : i \in DOMAIN table}

FirstDefine(table, name) == SetMin({i \in DOMAIN table : table[i][1] = name})

TextOf(table, name) == table[SetMax({i \in DOMAIN table : table[i][1] = name})][2]

\* every occurrence of "$" followed by the name of a macro of `names` is
\* replaced by the macro's text, one macro after the other in the order of
\* their first #define lines
RECURSIVE InDefineOrder(_, _, _)
InDefineOrder(text, table, names) ==
    IF names = {} THEN text
    ELSE LET first == CHOOSE n \in names :
                          \A m \in names : FirstDefine(table, n) <= FirstDefine(table, m)
         IN  InDefineOrder(Replace(text, <<"$">> \o first, TextOf(table, first)),
                           table, names \ {first})

\* every token "$NAME" of the text (NAME: the whole run of word characters
\* after the "$") is replaced by NAME's text if and only if the table
\* defines NAME
RECURSIVE TokenWise(_, _)
TokenWise(text, table) ==
    IF text = << >> THEN << >>
    ELSE IF Head(text) # "$"
    THEN << Head(text) >> \o TokenWise(Tail(text), table)
    ELSE LET ends == {j \in 2..Len(text) : AllIn(text, 1, j, WordChars)}
             e    == IF ends = {} THEN 1 ELSE SetMax(ends)
             name == Slice(text, 1, e)
         IN  IF name \in NamesOf(table)
             THEN TextOf(table, name) \o TokenWise(SliceFrom(text, e), table)
             ELSE << "$" >> \o TokenWise(Tail(text), table)

\* the last line assigns values: it is a region marker line, or a plain
\* attribute line met in a section whose mapping takes its pairs
AssignsValues ==
    /\ LineProcessed
    /\ \/ IsRegionLine(LastLine)
       \/ /\ IsAttributeLine(LastLine)
          /\ \/ before.parser.current_section \in {"control", "global"}
             \/ before.parser.current_section = "group" /\ GroupTruthy(before.parser)
             \/ before.parser.current_section = "region" /\ RegionTruthy(before.parser)

\* the (key, value text) pairs of the last line, and the mapping they go to
AssignedPairs ==
    IF IsRegionLine(LastLine)
    THEN extract_opcodes(Strip(SliceFrom(Uncomment(LastLine), 8)))
    ELSE extract_opcodes(Uncomment(LastLine))

AssignedMapping ==
    IF IsRegionLine(LastLine) THEN RegionAt(data.groups, current_region)
    ELSE CASE before.parser.current_section = "control" -> data.control
           [] before.parser.current_section = "global" -> data.global
           [] before.parser.current_section = "group" ->
                  data.groups[before.parser.current_group[1]].opcodes
           [] before.parser.current_section = "region" ->
                  RegionAt(data.groups, before.parser.current_region)

\* the last line is a #define line
DefinesMacro ==
    /\ LineProcessed
    /\ LastLine # << >>
    /\ ~StartsWith(LastLine, CommentMark)
    /\ StartsWith(Uncomment(LastLine), DefineDirective)

\* C5 as stated: in the value a line assigns, "$NAME" is replaced by NAME's
\* text if and only if NAME was defined by a #define line processed
\* earlier in the scan, and a #define line changes no value stored before.
C5_ReplacedIffDefinedEarlier ==
    /\ AssignsValues
       => LET table == EarlierMacros
                  pairs == AssignedPairs
                  into  == AssignedMapping
              IN  \A key \in KeysOf(pairs) :
                      into[key] = parse_value(TokenWise(LastValue(pairs, key), table))
    /\ DefinesMacro => data = before.parser.data

\* C5: the value a line assigns is its text after the macros defined by
\* the #define lines processed earlier in the scan (in this file or in a
\* file included before) are applied one after the other, in the order of
\* their first definitions, each replacing every occurrence of "$" and its
\* name by its latest text; a #define line changes no value stored before.
C5_VisibleInScanOrder ==
    /\ AssignsValues
       => LET table == EarlierMacros
                  pairs == AssignedPairs
                  into  == AssignedMapping
              IN  \A key \in KeysOf(pairs) :
                      into[key] = parse_value(InDefineOrder(LastValue(pairs, key),
                                                            table, NamesOf(table)))
    /\ DefinesMacro => data = before.parser.data

\* A line of the top-level file has just stored s = xB and t = x/k, with
\* the macros A and AB defined by the file it included before.
C5_Witness ==
    /\ AssignsValues
    /\ LastFile = TopFile
    /\ NamesOf(EarlierMacros) = {M_A, M_AB}
    /\ \A i \in EarlierDefines : log[i][1] = OtherFile
    /\ AssignedMapping[K_s] = StrValue(<<"x", "B">>)
    /\ AssignedMapping[K_t] = StrValue(<<"x", "/", "k">>)

\* ------------------------------------------------------------------------
\* C6
\* ------------------------------------------------------------------------

\* C6: when the top-level file does not exist, no document is normalized
\* and none is written.
C6_MissingTopIsFatal ==
    TopFile \notin present => normalized = << >> /\ output = << >>

\* ------------------------------------------------------------------------
\* C7
\* ------------------------------------------------------------------------

\* the last line is an #include line with a quoted path, and the file the
\* path resolves to does not exist
MissingInclude ==
    /\ LineProcessed
    /\ IsIncludeLine(LastLine)
    /\ IncludeTarget(before.parser, Uncomment(LastLine), Parent(LastFile)) # << >>
    /\ IncludeTarget(before.parser, Uncomment(LastLine), Parent(LastFile))[1]
           \notin present

\* C7: an #include line whose target does not exist changes neither the
\* parser (document, macro table, active section, current group and region)
\* nor processed_files, and the call of parse_file that read the line goes
\* on with the next line of the including file.
C7_MissingIncludeIsNoOp ==
    MissingInclude
    => /\ Parser = before.parser
       /\ processed_files = before.processed_files
       /\ phase = "parsing"
       /\ stack = [before.stack EXCEPT ![Len(before.stack)].pos = @ + 1]

\* The top-level file has just asked for the other file, which does not
\* exist, after it opened a group and a region.
C7_Witness ==
    /\ MissingInclude
    /\ LastLine = L_include_b
    /\ LastFile = TopFile
    /\ current_region # None

\* ------------------------------------------------------------------------
\* C8
\* ------------------------------------------------------------------------

\* the instrument file of C8: a <global> line that sets ampeg_release=0.5,
\* a <group> line, a <region> line that sets ampeg_release=0.1 and a
\* <region> line that sets nothing
ReleaseFile == <<L_global_release, L_group, L_region_release, L_region>>

\* the release times of the descriptors of a document
Releases(doc) == [i \in 1..Len(doc.regions) |-> doc.regions[i].amp_env.release]

\* C8: the document written for the instrument file of C8 has exactly two
\* descriptors, with the release times 0.1 and 0.5 in that order.
C8_ReleaseEndToEnd ==
    (output # << >> /\ files[TopFile] = ReleaseFile)
    => Releases(output[1]) = << FloatValue(1, -1), FloatValue(5, -1) >>

\* ------------------------------------------------------------------------
\* C9
\* ------------------------------------------------------------------------

\* the regions normalize() went through, in its order
NormalizedRegions == AllRegions(data.groups)

\* the bound a descriptor must give for a key: the stored value, or the
\* default when the region does not have the key
BoundOf(region, key, default) ==
    IF key \in DOMAIN region THEN region[key] ELSE IntValue(default)

\* C9: every descriptor of the normalized document has a key_range and a
\* vel_range of two elements; each bound is the value its region stores
\* for lokey, hikey, lovel, hivel, or 0, 127, 0, 127 when the region does
\* not have the key.
C9_RangesDefaulted ==
    normalized # << >>
    => /\ Len(normalized[1].regions) = Len(NormalizedRegions)
       /\ \A i \in 1..Len(normalized[1].regions) :
            LET norm   == normalized[1].regions[i]
                region == NormalizedRegions[i]
            IN  /\ Len(norm.key_range) = 2
                /\ Len(norm.vel_range) = 2
                /\ norm.key_range[1] = BoundOf(region, K_lokey, 0)
                /\ norm.key_range[2] = BoundOf(region, K_hikey, 127)
                /\ norm.vel_range[1] = BoundOf(region, K_lovel, 0)
                /\ norm.vel_range[2] = BoundOf(region, K_hivel, 127)

\* The normalized document has a descriptor with the ranges [0, 127] and
\* [0, 127] for a region without the four keys, and one with the ranges
\* [3, 127] and [1, 9] for a region that has lokey, lovel and hivel.
C9_Witness ==
    /\ normalized # << >>
    /\ \E i, j \in 1..Len(normalized[1].regions) :
         /\ DOMAIN NormalizedRegions[i] = {}
         /\ normalized[1].regions[i].key_range = << IntValue(0), IntValue(127) >>
         /\ normalized[1].regions[i].vel_range = << IntValue(0), IntValue(127) >>
         /\ DOMAIN NormalizedRegions[j] = {K_lokey, K_lovel, K_hivel}
         /\ normalized[1].regions[j].key_range = << IntValue(3), IntValue(127) >>
         /\ normalized[1].regions[j].vel_range = << IntValue(1), IntValue(9) >>

\* ------------------------------------------------------------------------
\* C10
\* ------------------------------------------------------------------------

\* C10: the root_key of every descriptor of the normalized document is its
\* region's pitch_keycenter if the region has that key; else the region's
\* lokey if it has that key; else 60.
C10_RootKeyOrder ==
    normalized # << >>
    => \A i \in 1..Len(normalized[1].regions) :
         LET root   == normalized[1].regions[i].root_key
             region == NormalizedRegions[i]
         IN  /\ K_pitch_keycenter \in DOMAIN region => root = region[K_pitch_keycenter]
             /\ (K_pitch_keycenter \notin DOMAIN region /\ K_lokey \in DOMAIN region)
                    => root = region[K_lokey]
             /\ (K_pitch_keycenter \notin DOMAIN region /\ K_lokey \notin DOMAIN region)
                    => root = IntValue(60)

\* The normalized document has three descriptors: root_key 60 for a region
\* with neither key, 3 for a region with lokey = 3 only, and 7 for a
\* region with lokey = 3 and pitch_keycenter = 7.
C10_Witness ==
    /\ normalized # << >>
    /\ Len(normalized[1].regions) = 3
    /\ DOMAIN NormalizedRegions[1] = {}
    /\ normalized[1].regions[1].root_key = IntValue(60)
    /\ DOMAIN NormalizedRegions[2] = {K_lokey}
    /\ normalized[1].regions[2].root_key = IntValue(3)
    /\ DOMAIN NormalizedRegions[3] = {K_lokey, K_pitch_keycenter}
    /\ normalized[1].regions[3].root_key = IntValue(7)

\* ------------------------------------------------------------------------
\* C11
\* ------------------------------------------------------------------------

\* where the key of the assignment with its "=" at e begins, when white
\* space and then word characters alone come right before the "=": the
\* start of the run of word characters (-1: no such run)
KeyRunStart(line, e) ==
    LET runs == {j \in 1..(e - 1) :
                    AllIn(line, j, e, WordChars) /\ line[j] \in WhiteSpace}
    IN  IF runs = {} THEN -1 ELSE SetMin(runs)

\* the "=" signs that begin an assignment, from left to right: the first
\* "=" of the line, and every later "=" that white space and word
\* characters precede
AssignmentSigns(line) ==
    {e \in Occurrences(line, <<"=">>) :
        \/ e = Find(line, <<"=">>, 0)
        \/ KeyRunStart(line, e) # -1}

\* the pair of the assignment at e: the key is the text between the last
\* blank before the "=" and the "="; the value runs from the "=" to the
\* key of the next assignment, or to the end of the line
PairAt(line, e) ==
    LET later == {x \in AssignmentSigns(line) : x > e}
        stop  == IF later = {} THEN Len(line)
                 ELSE KeyRunStart(line, SetMin(later))
    IN  << Strip(Slice(line, RFind(line, <<" ">>, 0, e) + 1, e)),
           Strip(Slice(line, e + 1, stop)) >>

\* the pairs of the assignments of a line, from left to right
RECURSIVE PairsFrom(_, _)
PairsFrom(line, signs) ==
    IF signs = {} THEN << >>
    ELSE << PairAt(line, SetMin(signs)) >>
             \o PairsFrom(line, signs \ {SetMin(signs)})

\* C11: the tokenizer returns one (key, value text) pair for each
\* assignment of the line, from left to right, the value running up to the
\* white space before the next key and "=" or to the end of the line; for
\* sample=My Piano.wav lovel=0 the pairs are (sample, My Piano.wav) and
\* (lovel, 0).
C11_PairsLeftToRight ==
    (LineProcessed /\ IsAttributeLine(LastLine))
    => /\ extract_opcodes(Uncomment(LastLine)) =
              PairsFrom(Uncomment(LastLine), AssignmentSigns(Uncomment(LastLine)))
       /\ LastLine = T_sample
              => extract_opcodes(LastLine) =
                     << << K_sample, <<"M", "y", " ", "P", "i", "a", "n", "o", ".",
                                       "w", "a", "v">> >>,
                        << K_lovel, <<"0">> >> >>

\* The line sample=My Piano.wav lovel=0 has just been stored into the
\* global mapping as sample = "My Piano.wav" and lovel = 0.
C11_Witness ==
    /\ LineProcessed
    /\ LastLine = T_sample
    /\ before.parser.current_section = "global"
    /\ DOMAIN data.global = {K_sample, K_lovel}
    /\ data.global[K_lovel] = IntValue(0)
    /\ data.global[K_sample] =
           StrValue(<<"M", "y", " ", "P", "i", "a", "n", "o", ".", "w", "a", "v">>)

\* ------------------------------------------------------------------------
\* C12
\* ------------------------------------------------------------------------

\* no line of a file was handed to process_line twice
NoLineTwice == \A i, j \in 1..Len(log) : log[i] = log[j] => i = j

\* C12: no step takes a path out of processed_files, and no line of any
\* file is handed to process_line more than once.
C12_ProcessedOnce ==
    /\ [][processed_files \subseteq processed_files']_vars
    /\ []NoLineTwice

\* parse_file has returned to main() with both files processed, after the
\* other file was asked for from two places and the top-level file was
\* asked for again.
C12_Witness ==
    /\ phase = "parsed"
    /\ processed_files = {TopFile, OtherFile}
    /\ \E i, j \in 1..Len(log) : i # j /\ LineAt(i) = L_include_b /\ LineAt(j) = L_include_b
    /\ \E i \in 1..Len(log) : LineAt(i) = L_include_a

\* ------------------------------------------------------------------------
\* C13
\* ------------------------------------------------------------------------

\* the reference to a macro: "$" and its name
Reference(name) == <<"$">> \o name

\* the last line gives the key a text that is a reference to the macro M,
\* and the text of M is a reference to another macro O
NestedReference(key, M, O) ==
    /\ M # O
    /\ LastValue(AssignedPairs, key) = Reference(M)
    /\ TextOf(EarlierMacros, M) = Reference(O)
    /\ ~Contains(TextOf(EarlierMacros, O), <<"$">>)

\* C13 as stated: a reference to another macro in the text of a macro is
\* not expanded in the stored value, whatever the order of the two #define
\* lines.
C13_NestedNeverExpanded ==
    AssignsValues
    => \A key \in KeysOf(AssignedPairs) :
         \A M, O \in NamesOf(EarlierMacros) :
           NestedReference(key, M, O)
           => AssignedMapping[key] = StrValue(Reference(O))

\* C13: a reference to another macro O in the text of a macro M is left as
\* it is in the stored value when O was first defined before M, and is
\* replaced by the text of O when O was first defined after M.
C13_NestedExpandedIfLater ==
    AssignsValues
    => \A key \in KeysOf(AssignedPairs) :
         \A M, O \in NamesOf(EarlierMacros) :
           NestedReference(key, M, O)
           => AssignedMapping[key] =
                IF FirstDefine(EarlierMacros, O) > FirstDefine(EarlierMacros, M)
                THEN parse_value(TextOf(EarlierMacros, O))
                ELSE StrValue(Reference(O))

\* The line <region> s=$A has just stored s = "$B", with B defined as z
\* before A was defined as $B.
C13_Witness ==
    /\ AssignsValues
    /\ LastLine = L_region_sA
    /\ NamesOf(EarlierMacros) = {M_A, M_B}
    /\ FirstDefine(EarlierMacros, M_B) < FirstDefine(EarlierMacros, M_A)
    /\ AssignedMapping[K_s] = StrValue(Reference(M_B))

\* ------------------------------------------------------------------------
\* C14
\* ------------------------------------------------------------------------

\* the mappings of the document: control, global, and the opcodes and the
\* regions of every group
Mappings(d) ==
    {d.control, d.global}
        \cup {d.groups[g].opcodes : g \in 1..Len(d.groups)}
        \cup {AllRegions(d.groups)[i] : i \in 1..Len(AllRegions(d.groups))}

\* C14: the tokenizer yields no pair with an empty key (no pair at all for
\* a line without "="), and no mapping of the document has the empty key.
C14_NoEmptyKey ==
    /\ (LineProcessed /\ Reaches(LastLine) /\ ~IsMarkerLine(LastLine))
       => /\ << >> \notin KeysOf(extract_opcodes(Uncomment(LastLine)))
          /\ ~Contains(Uncomment(LastLine), <<"=">>)
                 => extract_opcodes(Uncomment(LastLine)) = << >>
    /\ \A m \in Mappings(data) : << >> \notin DOMAIN m

\* ------------------------------------------------------------------------
\* C15
\* ------------------------------------------------------------------------

\* process_line takes the line to the branch of <master> or of <group>
IsGroupLine(raw) ==
    /\ Reaches(raw)
    /\ \/ StartsWith(Uncomment(raw), MasterMarker)
       \/ StartsWith(Uncomment(raw), GroupMarker)

\* C15: a line that starts with the group marker or the master marker
\* makes the active section Group, appends one group with no opcodes and
\* no regions to the list of groups, makes it the current group and clears
\* current_region; the groups there were, the control and global mappings
\* and the macro table stay as they were. The state does not depend on
\* which of the two markers the line starts with.
C15_GroupOpened ==
    (LineProcessed /\ IsGroupLine(LastLine))
    => /\ current_section = "group"
       /\ data.groups = Append(before.parser.data.groups,
                               [opcodes |-> EmptyMap, regions |-> << >>])
       /\ current_group = << Len(before.parser.data.groups) + 1 >>
       /\ current_region = None
       /\ data.control = before.parser.data.control
       /\ data.global = before.parser.data.global
       /\ defines = before.parser.defines

\* The line <master> v=1 has just opened a second group, empty, and
\* cleared the reference to the region of the first group.
C15_Witness ==
    /\ LineProcessed
    /\ LastLine = L_master_v1
    /\ before.parser.current_region # None
    /\ Len(data.groups) = 2
    /\ Len(data.groups[1].regions) = 1
    /\ data.groups[2] = [opcodes |-> EmptyMap, regions |-> << >>]
    /\ current_region = None

\* ------------------------------------------------------------------------
\* C16
\* ------------------------------------------------------------------------

\* the number of regions in the region lists of the groups
RegionCount(groups) == Len(AllRegions(groups))

\* C16: the most recent line, if it is a region marker line, has added its
\* region to the region list of one group and of no other (of a new empty
\* group appended to the list when no group was open, else of the current
\* group), and the regions and groups there were are where they were; a
\* line that is not a region marker line leaves every region list as long
\* as it was, and adds a group only if it is a group or master marker
\* line; no other step changes the groups. So every region made is in the region list of
\* one group, once, and every group once in the list of groups.
C16_OneGroupPerRegion ==
    /\ log = << >> => data.groups = << >>
    /\ (log # << >> /\ ~IsRegionLine(LastLine))
       => /\ RegionCount(data.groups) = RegionCount(before.parser.data.groups)
          /\ Len(data.groups) =
                 Len(before.parser.data.groups) + IF IsGroupLine(LastLine) THEN 1 ELSE 0
          /\ \A h \in 1..Len(before.parser.data.groups) :
                 Len(data.groups[h].regions) = Len(before.parser.data.groups[h].regions)
    /\ (log # << >> /\ IsRegionLine(LastLine))
       => LET old == before.parser.data.groups
              g   == IF before.parser.current_group = None
                     THEN Len(old) + 1
                     ELSE before.parser.current_group[1]
              was == IF before.parser.current_group = None
                     THEN Append(old, [opcodes |-> EmptyMap, regions |-> << >>])
                     ELSE old
          IN  /\ Len(data.groups) = Len(was)
              /\ RegionCount(data.groups) = RegionCount(old) + 1
              /\ current_group = << g >>
              /\ current_region = << g, Len(was[g].regions) + 1 >>
              /\ Len(data.groups[g].regions) = Len(was[g].regions) + 1
              /\ SubSeq(data.groups[g].regions, 1, Len(was[g].regions)) = was[g].regions
              /\ data.groups[g].opcodes = was[g].opcodes
              /\ \A h \in 1..Len(was) : h # g => data.groups[h] = was[h]

\* The first line of the file, <region> v=3 w=4, has just made a group
\* for its region; a later region marker line has just put a second
\* region into the second of two groups.
C16_Witness ==
    /\ LineProcessed
    /\ IsRegionLine(LastLine)
    /\ IsRegionLine(LineAt(1))
    /\ Len(data.groups) = 2
    /\ Len(data.groups[1].regions) = 1
    /\ Len(data.groups[2].regions) = 2
    /\ current_region = << 2, 2 >>

\* ------------------------------------------------------------------------
\* C17
\* ------------------------------------------------------------------------

\* the file of the i-th call of process_line
FileAt(i) == log[i][1]

\* the file the last line, an #include line, asks for
IncludedFile ==
    IncludeTarget(before.parser, Uncomment(LastLine), Parent(LastFile))[1]

\* the last line is an #include line that names a file that exists and was
\* not processed before, and parse_file was called on it
EntersInclude ==
    /\ LineProcessed
    /\ IsIncludeLine(LastLine)
    /\ IncludeTarget(before.parser, Uncomment(LastLine), Parent(LastFile)) # << >>
    /\ IncludedFile \in present
    /\ IncludedFile \notin before.processed_files
    /\ phase = "parsing"

\* C17: an #include line of a file F that names an existing file G not
\* processed before starts the reading of G at once, below nothing but the
\* calls that were active, with no line of G read before; the lines of two
\* files never alternate (lines of F, of G, of F, of G), and when lines of
\* a file G lie between two lines of a file F, the end of G was read
\* before F went on. So all lines of G, and of the files G includes, come
\* after the lines of F before the #include line and before the lines of
\* F after it.
C17_DepthFirst ==
    /\ EntersInclude
       => /\ stack = Append([before.stack EXCEPT ![Len(before.stack)].pos = @ + 1],
                            [file |-> IncludedFile, pos |-> 0])
          /\ \A i \in 1..Len(log) : FileAt(i) # IncludedFile
    /\ \A w, x, y, z \in 1..Len(log) :
          (w < x /\ x < y /\ y < z /\ FileAt(w) # FileAt(x))
          => ~(FileAt(w) = FileAt(y) /\ FileAt(x) = FileAt(z))
    /\ \A x, y, z \in 1..Len(log) :
          (x < y /\ y < z /\ FileAt(x) = FileAt(z) /\ FileAt(y) # FileAt(x))
          => FileAt(y) \in closed

\* The top-level file went on with a line of its own after it included the
\* second file, which had a line before and a line after its #include line
\* for the third file, which had a line.
C17_Witness ==
    /\ Len(log) = 5
    /\ FileAt(1) = TopFile
    /\ LineAt(1) = L_include_b
    /\ FileAt(2) = OtherFile
    /\ LineAt(2) = L_include_c
    /\ FileAt(3) = ThirdFile
    /\ FileAt(4) = OtherFile
    /\ FileAt(5) = TopFile

\* ------------------------------------------------------------------------
\* C18
\* ------------------------------------------------------------------------

\* C18: once the parsed document has been handed to normalize(), there is
\* a normalized document; it has one descriptor for each region, in the
\* order of the groups and of the regions in them, and the descriptor of a
\* region without a sample has no sample path.
C18_DescriptorPerRegion ==
    phase \in {"normalized", "written", "crashed"}
    => /\ normalized # << >>
       /\ Len(normalized[1].regions) = Len(NormalizedRegions)
       /\ \A i \in 1..Len(normalized[1].regions) :
            K_sample \notin DOMAIN NormalizedRegions[i]
            => normalized[1].regions[i].sample = NoneValue

\* ------------------------------------------------------------------------
\* C19
\* ------------------------------------------------------------------------

\* C19: in every state after the first call of process_line, the parser is
\* what the most recent call of process_line made of the parser it found:
\* neither the call of parse_file for an #include line nor its return
\* saves, resets or restores the document, the macro table, the active
\* section, the current group or the current region. So the lines after an
\* #include line work on the section, group and region the included file
\* left, and the lines of the included file on those the includer left.
C19_StateSharedAcrossIncludes ==
    log # << >>
    => Parser = process_line(before.parser, LastLine, Parent(LastFile))

\* The top-level file opened a group and included the other file, whose
\* line <region> v=3 w=4 put a region into that group; the line v=1 of the
\* top-level file after the #include line has just been stored into that
\* region.
C19_Witness ==
    /\ LineProcessed
    /\ Len(log) = 4
    /\ LastFile = TopFile
    /\ LastLine = L_v1
    /\ LineAt(1) = L_group
    /\ LineAt(2) = L_include_b
    /\ FileAt(3) = OtherFile
    /\ LineAt(3) = L_region_v3_w4
    /\ data.groups =
         << [opcodes |-> EmptyMap,
             regions |-> << (K_v :> IntValue(1)) @@ (K_w :> IntValue(4)) >>] >>

\* ------------------------------------------------------------------------
\* C20
\* ------------------------------------------------------------------------

\* process_line takes the line to the branch of <control> or of <global>
IsScopeLine(raw) ==
    /\ Reaches(raw)
    /\ \/ StartsWith(Uncomment(raw), ControlMarker)
       \/ StartsWith(Uncomment(raw), GlobalMarker)

\* C20: a line that starts with the control marker or the global marker
\* changes the active section and nothing else of the parser, whatever
\* text follows the marker on the line; a region marker line met in the
\* control or global section with a group open puts its region at the end
\* of the region list of that group.
C20_ScopeMarkerOnlySwitches ==
    /\ (LineProcessed /\ IsScopeLine(LastLine))
       => Parser = [before.parser EXCEPT
                       !.current_section =
                           IF StartsWith(Uncomment(LastLine), ControlMarker)
                           THEN "control" ELSE "global"]
    /\ (/\ LineProcessed
        /\ IsRegionLine(LastLine)
        /\ before.parser.current_section \in {"control", "global"}
        /\ before.parser.current_group # None)
       => /\ current_group = before.parser.current_group
          /\ Len(data.groups) = Len(before.parser.data.groups)
          /\ current_region =
                << current_group[1],
                   Len(before.parser.data.groups[current_group[1]].regions) + 1 >>

\* The line <global> ampeg_release=0.5 was processed with a group open and
\* left the global mapping empty; the region marker line after it has just
\* put a second region into that group.
C20_Witness ==
    /\ LineProcessed
    /\ IsRegionLine(LastLine)
    /\ before.parser.current_section = "global"
    /\ before.parser.current_group = << 1 >>
    /\ data.global = EmptyMap
    /\ current_region = << 1, 2 >>
    /\ \E i \in 1..(Len(log) - 1) : LineAt(i) = L_global_release

\* ------------------------------------------------------------------------
\* C21
\* ------------------------------------------------------------------------

\* C21: in every state, the current group, if set, is the last group of
\* the list of groups; the current region, if set, is the last region of
\* the region list of the current group; the active section Group comes
\* with a current group, and the active section Region with a current
\* group and a current region.
C21_CurrentAreLast ==
    /\ current_group # None => current_group = << Len(data.groups) >>
    /\ current_region # None
       => /\ current_group # None
          /\ current_region =
                << current_group[1], Len(data.groups[current_group[1]].regions) >>
          /\ current_region[2] >= 1
    /\ current_section = "group" => current_group # None
    /\ current_section = "region" => current_group # None /\ current_region # None

\* A region marker line has just put a second region into the second of
\* two groups, the first of which has a region: the current group is the
\* second group and the current region its second region.
C21_Witness ==
    /\ LineProcessed
    /\ IsRegionLine(LastLine)
    /\ current_section = "region"
    /\ Len(data.groups) = 2
    /\ Len(data.groups[1].regions) >= 1
    /\ current_group = << 2 >>
    /\ current_region = << 2, 2 >>
    /\ \E i \in 1..Len(log) : IsGroupLine(LineAt(i))

====
